---- MODULE Spec2Model ----
(***************************************************************************)
(* Order lifecycle and result reconciliation of the trading bot:           *)
(*   execution.py       ExecutionEngine.open_order (bounded retry)         *)
(*   result_watcher.py  ResultWatcher (registry, push resolver, poller)    *)
(*   bot.py             TradingLionsBot tick loop (single-flight control)  *)
(*                                                                         *)
(* Units.  Time is counted in half seconds (0.5 s = 1), so that the        *)
(* 0.5 s grace of the poller and Python's round() of x.5 timestamps are    *)
(* representable.  Money is counted in cents, payout in percent.           *)
(* None is -1 wherever the code uses None for a missing number.            *)
(***************************************************************************)
EXTENDS Integers, Sequences, FiniteSets, TLC

\* ------------------------------------------------------------------ bounds
MaxOrders == 2          \* broker ids handed out by api.buy: 1..MaxOrders
MaxRegs == 2           \* direct register_open_trade calls in SpecApi
MaxTime == 241          \* the clock stops advancing here (half seconds)
Jitter == 1             \* instants observed after each full minute
EventJitter == 6        \* push close_time values around each full minute

\* ------------------------------------------------------- program constants
MAX_RETRIES == 3        \* execution.py:23
Minute == 120           \* 60 s  (result_watcher.py:433, bot.py:492, config.py:11)
Grace == 1              \* 0.5 s (result_watcher.py:123)
MatchWindow == 2        \* 2 s   (result_watcher.py:86), in whole seconds
TickInterval == 2       \* 1.0 s (start.py:67)
TradeDuration == 1      \* config.py:81  trade_duration, minutes
BaseStake == 100        \* config.py:20  base_stake = 1.0
None == -1
Token == -2             \* an order id that int(str(raw).strip()) cannot parse

Asset == "EURUSD-OTC"   \* config.py:61

Abs(x) == IF x < 0 THEN -x ELSE x
Max(a, b) == IF a >= b THEN a ELSE b

\* Python round(float) of a time given in half seconds, to whole seconds:
\* ties go to the even integer.
PyRoundSec(h) ==
    LET q == h \div 2
        r == h % 2
    IN  IF r = 0 THEN q ELSE IF q % 2 = 0 THEN q ELSE q + 1

\* Python round(n/d, 2) for a money amount of n/d cents (d > 0), ties to even.
PyRound2(n, d) ==
    LET q == n \div d
        r == n % d
    IN  IF 2 * r < d THEN q
        ELSE IF 2 * r > d THEN q + 1
        ELSE IF q % 2 = 0 THEN q ELSE q + 1

\* Python truthiness of an optional number / token.
Truthy(x) == x # None /\ x # 0

\* a or b or c ... on optional numbers
Or2(a, b) == IF Truthy(a) THEN a ELSE b

\* ResultWatcher._normalize_option_id
NormalizeOptionId(raw) ==
    IF raw = None THEN None
    ELSE IF raw = Token THEN None
    ELSE raw

\* ------------------------------------------------------------ label tables
WinSynonyms == {"win", "won", "success", "victory", "gana"}
LossSynonyms == {"loss", "loose", "lost", "fail", "failed", "defeat", "losses", "perdida"}
DrawSynonyms == {"draw", "tie", "equal", "refund", "refunded", "igual"}
NoLabel == ""           \* the field is missing (None)

\* ResultWatcher._normalize_outcome_label; NoLabel stands for None
NormalizeOutcomeLabel(label) ==
    IF label \in WinSynonyms THEN "win"
    ELSE IF label \in LossSynonyms THEN "loss"
    ELSE IF label \in DrawSynonyms THEN "draw"
    ELSE NoLabel

\* ResultWatcher._coerce_profit_amount: abs(float(value)), 0.0 for None
CoerceProfitAmount(value) == IF value = None THEN 0 ELSE Abs(value)

\* ResultWatcher._resolve_and_log, the outcome / profit part (lines 338-354).
\* ev.result is the label (NoLabel when absent), ev.profit_amount the amount
\* in cents (None when absent).
ResolveWinLabels == {"win", "won", "success", "victory"}
ResolveLossLabels == {"loss", "loose", "lost", "fail", "failed", "defeat"}

ProfitOfEvent(ev) == IF Truthy(ev.profit_amount) THEN ev.profit_amount ELSE 0

FinalRecord(open_payload, ev) ==
    LET profit_amt == ProfitOfEvent(ev)
        stake == IF Truthy(open_payload.stake) THEN open_payload.stake ELSE 0
        payout == IF Truthy(open_payload.payout) THEN open_payload.payout ELSE 0
    IN  IF ev.result \in ResolveWinLabels
        THEN [trade_id |-> open_payload.trade_id, open_time |-> open_payload.open_time,
              outcome_real |-> "WIN",
              profit_real |-> IF Abs(profit_amt) = 0 /\ stake > 0
                              THEN PyRound2(stake * payout, 100)
                              ELSE Abs(profit_amt)]
        ELSE IF ev.result \in ResolveLossLabels
        THEN [trade_id |-> open_payload.trade_id, open_time |-> open_payload.open_time,
              outcome_real |-> "LOSS",
              profit_real |-> IF Abs(profit_amt) = 0 /\ stake > 0
                              THEN -stake
                              ELSE -Abs(profit_amt)]
        ELSE [trade_id |-> open_payload.trade_id, open_time |-> open_payload.open_time,
              outcome_real |-> "DRAW",
              profit_real |-> 0]

\* A record of the brokerage's recently-closed list, as the poller reads it:
\* option_id (None when absent), id0 (head of a list-wrapped "id", None when
\* absent), result / win labels, profit_amount, win_amount, amount (cents).
ClosedCandidate(entry) == IF entry.option_id # None THEN entry.option_id ELSE entry.id0

ClosedRawOutcome(entry) == IF entry.result # NoLabel THEN entry.result ELSE entry.win

\* ResultWatcher._extract_result_from_closed: index of the first record whose
\* candidate id equals the target (0 when there is none) ...
RECURSIVE ClosedIndexFrom(_, _, _)
ClosedIndexFrom(entries, option_id, i) ==
    IF i > Len(entries) THEN 0
    ELSE IF ClosedCandidate(entries[i]) # None /\ ClosedCandidate(entries[i]) = option_id
         THEN i
         ELSE ClosedIndexFrom(entries, option_id, i + 1)

\* ... and the (outcome, profit_amt, entry index) it returns for it.  outcome
\* NoLabel stands for None.
ClosedOutcome(entry) ==
    IF NormalizeOutcomeLabel(ClosedRawOutcome(entry)) # NoLabel
    THEN NormalizeOutcomeLabel(ClosedRawOutcome(entry))
    ELSE ClosedRawOutcome(entry)

ClosedProfit(entry) ==
    IF CoerceProfitAmount(entry.profit_amount) = 0
    THEN Abs((IF Truthy(entry.win_amount) THEN entry.win_amount ELSE 0)
             - (IF Truthy(entry.amount) THEN entry.amount ELSE 0))
    ELSE CoerceProfitAmount(entry.profit_amount)

ExtractResultFromClosed(entries, option_id) ==
    LET i == ClosedIndexFrom(entries, option_id, 1)
    IN  IF i = 0 THEN [outcome |-> NoLabel, profit_amt |-> 0, entry |-> 0]
        ELSE [outcome |-> ClosedOutcome(entries[i]),
              profit_amt |-> ClosedProfit(entries[i]),
              entry |-> i]

\* The close_event the poller builds for _resolve_and_log (lines 160-173).
PollCloseEvent(found, p_now) ==
    [close_time |-> p_now, result |-> found.outcome, profit_amount |-> found.profit_amt]

\* ------------------------------------------------------------ the registry
\* self.pending is a dict: a sequence of buckets in insertion order, one per
\* trade id.
RECURSIVE IndexOfFrom(_, _, _)
IndexOfFrom(pend, tid, i) ==
    IF i > Len(pend) THEN 0
    ELSE IF pend[i].tid = tid THEN i ELSE IndexOfFrom(pend, tid, i + 1)

IndexOf(pend, tid) == IndexOfFrom(pend, tid, 1)

RemoveAt(pend, i) == [j \in 1..(Len(pend) - 1) |-> IF j < i THEN pend[j] ELSE pend[j + 1]]

\* self.pending[tid] = bucket: an existing key keeps its position
PutBucket(pend, bucket) ==
    LET i == IndexOf(pend, bucket.tid)
    IN  IF i = 0 THEN Append(pend, bucket) ELSE [pend EXCEPT ![i] = bucket]

\* self.pending.pop(tid, None)
PopTid(pend, tid) ==
    LET i == IndexOf(pend, tid)
    IN  IF i = 0 THEN pend ELSE RemoveAt(pend, i)

\* register_open_trade, lines 46-50: the reference it derives from a payload
PayloadOptionId(payload) ==
    NormalizeOptionId(Or2(payload.be_option_id, Or2(payload.option_id, payload.order_id)))

\* _compute_expire_ts (wall is time.time() at the call)
ComputeExpireTs(payload, open_time, wall) ==
    LET base_time == IF open_time > 0 THEN open_time ELSE wall
        duration_min == IF payload.duration = None THEN 1
                        ELSE IF payload.duration <= 0 THEN 1 ELSE payload.duration
    IN  base_time + duration_min * Minute

\* register_open_trade, lines 43-67: the bucket built for a payload
MakeBucket(payload, wall) ==
    LET open_time_exact == IF payload.open_time = None THEN wall ELSE payload.open_time
    IN  [tid |-> payload.trade_id,
         open |-> payload,
         open_ts |-> PyRoundSec(open_time_exact),
         expire_ts |-> ComputeExpireTs(payload, open_time_exact, wall),
         resolved |-> FALSE,
         option_id |-> PayloadOptionId(payload),
         order_ref |-> Or2(payload.order_id_raw, payload.order_id)]

\* Fault variant of the overwrite guard: nothing is ever rejected.
RegisterRejectsNever(pend, payload) == FALSE

\* register_open_trade, lines 53-57: the overwrite guard
RegisterRejects(pend, payload) ==
    LET i == IndexOf(pend, payload.trade_id)
    IN  /\ i # 0
        /\ Truthy(pend[i].option_id)
        /\ ~Truthy(PayloadOptionId(payload))

\* Fault variant of the scan: the last bucket inside the window is taken.
PushHitLast(pend, close_ts) ==
    LET H == {i \in 1..Len(pend) : Abs(pend[i].open_ts - close_ts) <= MatchWindow}
    IN  IF H = {} THEN 0 ELSE CHOOSE i \in H : \A j \in H : i >= j

\* Fault variant of the window test: a strict comparison.
PushHitStrict(pend, close_ts) ==
    LET H == {i \in 1..Len(pend) : Abs(pend[i].open_ts - close_ts) < MatchWindow}
    IN  IF H = {} THEN 0 ELSE CHOOSE i \in H : \A j \in H : i <= j

\* handle_websocket_close, lines 85-86: the first bucket inside the window
RECURSIVE PushHitFrom(_, _, _)
PushHitFrom(pend, close_ts, i) ==
    IF i > Len(pend) THEN 0
    ELSE IF Abs(pend[i].open_ts - close_ts) <= MatchWindow THEN i
         ELSE PushHitFrom(pend, close_ts, i + 1)

PushHit(pend, close_ts) == PushHitFrom(pend, close_ts, 1)

\* handle_websocket_close, lines 76-82: the event is read at all
PushAccepted(ev) == Truthy(ev.close_time)

\* Fault variant of the expiry gate: the comparison is the wrong way round.
NotDueInverted(bucket, p_now) == bucket.expire_ts # 0 /\ p_now > bucket.expire_ts - Grace

\* _execute_fallback_pass, line 123: the entry is not due yet
NotDue(bucket, p_now) == bucket.expire_ts # 0 /\ p_now < bucket.expire_ts - Grace

\* _execute_fallback_pass, lines 130-135: lazy re-derivation of the reference
LazyOptionId(bucket) ==
    NormalizeOptionId(Or2(bucket.open.be_option_id,
                      Or2(bucket.open.option_id,
                      Or2(bucket.open.order_id, bucket.order_ref))))

\* ----------------------------------------------------------- order submit
\* ExecutionEngine.open_order, lines 78-118: the order built from a confirmed
\* brokerage id (int(str(order_id).strip()), else the id as it came).
MakeOrder(raw_id, stake, payout, opened_at) ==
    [order_id |-> raw_id,
     trade_id |-> <<Asset, raw_id>>,
     stake |-> stake,
     payout |-> payout,
     open_time |-> opened_at,
     duration |-> TradeDuration,
     order_id_raw |-> raw_id,
     be_option_id |-> raw_id,
     option_id |-> None]

\* api.buy: what one call can produce.  "ok" is (True, id), "noid" is
\* (True, None), "reject" is (False, message), "exc" is a raised exception.
BuyOutcomes == {"ok", "noid", "reject", "exc"}

\* Fault variant of the success test: the confirmation id is not looked at.
AttemptOkNoId(is_opened, oid) == is_opened

\* open_order, line 71: the attempt succeeded
AttemptOk(is_opened, oid) == is_opened /\ oid # None

\* bot._next_candle_open_timestamp
NextCandleOpen(t) == (t \div Minute) * Minute + Minute

\* --------------------------------------------------------------- the state
VARIABLES
    now,            \* wall clock, half seconds
    pending,        \* ResultWatcher.pending
    lock,           \* ResultWatcher.lock: "free" or the actor holding it
    sink,           \* closure records logger.log_close has persisted, in order
    sink_lost,      \* trade ids of the closure records log_close failed to persist
    opens,          \* number of records handed to logger.log_trade_open
    fallback_event, \* ResultWatcher._fallback_event
    running,        \* ResultWatcher.running
    \* the orchestrating tick loop (bot.run) and open_order
    t_pc, tick_time, active_order, pending_entry, reinforced, t_caller,
    opened, order_id, buyLog, nextId, t_payload,
    \* the background poller (_fallback_loop / _execute_fallback_pass)
    p_pc, p_snapshot, p_idx, p_now, p_cache, p_oid, p_found,
    \* the push callback (handle_websocket_close)
    w_pc, w_ev, w_hit,
    \* direct calls of register_open_trade made so far (the registry exercised
    \* on its own, see SpecApi)
    api_calls

watcherVars == <<pending, lock, sink, sink_lost, fallback_event, running>>
tickVars == <<t_pc, tick_time, active_order, pending_entry, reinforced, t_caller,
              opened, order_id, buyLog, nextId, t_payload, opens>>
pollVars == <<p_pc, p_snapshot, p_idx, p_now, p_cache, p_oid, p_found>>
pushVars == <<w_pc, w_ev, w_hit, api_calls>>
vars == <<now, watcherVars, tickVars, pollVars, pushVars>>

NoEvent == [close_time |-> None, result |-> NoLabel, profit_amount |-> None]
NoFound == [outcome |-> NoLabel, profit_amt |-> 0, entry |-> 0]
NoCache == [fetched |-> FALSE, list |-> <<>>]

\* the state after ResultWatcher.__init__, bot.__init__ and attach_watcher
InitRest ==
    /\ lock = "free"
    /\ sink = <<>>
    /\ sink_lost = <<>>
    /\ opens = 0
    /\ fallback_event = FALSE
    /\ running = TRUE
    /\ t_pc = "tick"
    /\ tick_time = 0
    /\ active_order = <<>>
    /\ pending_entry = <<>>
    /\ reinforced = FALSE
    /\ t_caller = "none"
    /\ opened = FALSE
    /\ order_id = None
    /\ buyLog = <<>>
    /\ nextId = 1
    /\ t_payload = <<>>
    /\ p_pc = "loop"
    /\ p_snapshot = <<>>
    /\ p_idx = 0
    /\ p_now = 0
    /\ p_cache = NoCache
    /\ p_oid = None
    /\ p_found = NoFound
    /\ w_pc = "idle"
    /\ w_ev = NoEvent
    /\ w_hit = 0
    /\ api_calls = 0

Init ==
    /\ now = Minute - Grace
    /\ pending = <<>>
    /\ InitRest

\* --------------------------------------------------------------- the clock
Instants ==
    {t \in 0..MaxTime : t % Minute <= Jitter \/ t % Minute >= Minute - Grace}

Advance ==
    /\ \E t \in Instants :
          /\ t > now
          /\ \A u \in Instants : u > now => t <= u
          /\ now' = t
    /\ UNCHANGED <<watcherVars, tickVars, pollVars, pushVars>>

\* ------------------------------------------------- the tick loop (bot.run)
Payouts == {80}

HasActiveOrder == active_order # <<>>

\* Steps of the tick loop that touch nothing but the loop's own state are
\* taken together with the step that follows them.

\* run, lines 266-277: the tick starts; _handle_signal returns at line 300 or
\* 305 (an order is active or an entry is scheduled); _enter_trade returns at
\* line 356 or 358
TickNoScan ==
    /\ t_pc = "tick"
    /\ now >= tick_time + TickInterval
    /\ HasActiveOrder \/ pending_entry # <<>>
    /\ \/ pending_entry = <<>>
       \/ pending_entry # <<>> /\ now < pending_entry[1].next_open_timestamp
    /\ tick_time' = now
    /\ t_pc' = "resolve"
    /\ UNCHANGED <<now, watcherVars, pollVars, pushVars, active_order, pending_entry,
                   reinforced, t_caller, opened, order_id, buyLog, nextId, t_payload, opens>>

\* _handle_signal, lines 306-341: the scan finds no valid signal; _enter_trade
\* returns at line 356
TickScanNone ==
    /\ t_pc = "tick"
    /\ now >= tick_time + TickInterval
    /\ ~HasActiveOrder /\ pending_entry = <<>>
    /\ tick_time' = now
    /\ t_pc' = "resolve"
    /\ UNCHANGED <<now, watcherVars, pollVars, pushVars, active_order, pending_entry,
                   reinforced, t_caller, opened, order_id, buyLog, nextId, t_payload, opens>>

\* _handle_signal, lines 306-346: the scan schedules the best candidate for
\* the next candle; _enter_trade returns at line 358 (not yet time)
TickScanBest ==
    /\ t_pc = "tick"
    /\ now >= tick_time + TickInterval
    /\ ~HasActiveOrder /\ pending_entry = <<>>
    /\ tick_time' = now
    /\ \E po \in Payouts :
          pending_entry' = <<[next_open_timestamp |-> NextCandleOpen(now), payout |-> po]>>
    /\ t_pc' = "resolve"
    /\ UNCHANGED <<now, watcherVars, pollVars, pushVars, active_order,
                   reinforced, t_caller, opened, order_id, buyLog, nextId, t_payload, opens>>

\* run, lines 266-277: the tick starts; _handle_signal returns at line 300 or
\* 305; _enter_trade, line 376, calls open_order (lines 62-63 start the retry
\* loop) because the scheduled time has come
EnterOpen ==
    /\ t_pc = "tick"
    /\ now >= tick_time + TickInterval
    /\ pending_entry # <<>>
    /\ now >= pending_entry[1].next_open_timestamp
    /\ tick_time' = now
    /\ t_caller' = "enter"
    /\ opened' = FALSE
    /\ order_id' = None
    /\ buyLog' = <<>>
    /\ t_pc' = "buy"
    /\ UNCHANGED <<now, watcherVars, pollVars, pushVars, active_order,
                   pending_entry, reinforced, nextId, t_payload, opens>>

\* open_order, lines 65-73: one pass of the retry loop
Buy(o) ==
    /\ t_pc = "buy"
    /\ Len(buyLog) < MAX_RETRIES
    /\ o = "ok" => nextId <= MaxOrders
    /\ opened' = (o \in {"ok", "noid"})
    /\ order_id' = IF o = "ok" THEN nextId ELSE IF o = "reject" THEN Token ELSE None
    /\ nextId' = IF o = "ok" THEN nextId + 1 ELSE nextId
    /\ buyLog' = Append(buyLog, o)
    /\ t_pc' = IF AttemptOk(opened', order_id') \/ Len(buyLog') = MAX_RETRIES
               THEN "after_loop" ELSE "buy"
    /\ UNCHANGED <<now, watcherVars, pollVars, pushVars, tick_time, active_order,
                   pending_entry, reinforced, t_caller, t_payload, opens>>

\* open_order returns: its locals are gone
OpenOrderLeaves ==
    /\ t_caller' = "none"
    /\ opened' = FALSE
    /\ order_id' = None
    /\ buyLog' = <<>>

\* Fault variant of _enter_trade on a refused order: the entry stays scheduled.
ScheduledKept(entry) == entry

\* _enter_trade, lines 389-392: open_order returned None, self.pending_entry = None
ScheduledAfterNone(entry) == <<>>

\* open_order, lines 75-76: returns None to _enter_trade, which clears the
\* scheduled entry (lines 389-392)
OpenFailEnter ==
    /\ t_pc = "after_loop"
    /\ ~opened \/ order_id = None
    /\ t_caller = "enter"
    /\ pending_entry' = ScheduledAfterNone(pending_entry)
    /\ t_pc' = "resolve"
    /\ OpenOrderLeaves
    /\ UNCHANGED <<now, watcherVars, pollVars, pushVars, tick_time, active_order,
                   reinforced, nextId, t_payload, opens>>

\* open_order, lines 75-76: returns None to _execute_reinforcement (line 465);
\* the tick ends with the non-blocking trigger (run, lines 280-285)
OpenFailReinforce ==
    /\ t_pc = "after_loop"
    /\ ~opened \/ order_id = None
    /\ t_caller = "reinforce"
    /\ fallback_event' = TRUE
    /\ t_pc' = "tick"
    /\ OpenOrderLeaves
    /\ UNCHANGED <<now, pending, lock, sink, sink_lost, running, pollVars, pushVars, tick_time,
                   active_order, pending_entry, reinforced, nextId, t_payload, opens>>

\* open_order, lines 78-121: the order becomes the active order and is logged
OpenBuild ==
    /\ t_pc = "after_loop"
    /\ ~(~opened \/ order_id = None)
    /\ \E po \in (IF t_caller = "enter" THEN {pending_entry[1].payout} ELSE Payouts) :
          LET order == MakeOrder(order_id, BaseStake, po, now)
          IN  /\ active_order' = <<order>>
              /\ t_payload' = <<order>>
    /\ opens' = opens + 1
    /\ t_pc' = "reg_check"
    /\ opened' = FALSE
    /\ order_id' = None
    /\ buyLog' = <<>>
    /\ UNCHANGED <<now, watcherVars, pollVars, pushVars, tick_time, pending_entry,
                   reinforced, t_caller, nextId>>

\* what the caller of open_order does with the order it got back:
\* _enter_trade (lines 394-415) clears the scheduled entry and _resolve_trade
\* comes next; _execute_reinforcement (lines 465-466) sets reinforced and the
\* tick ends with the non-blocking trigger (run, lines 280-285)
OrderReturned ==
    IF t_caller = "enter"
    THEN /\ pending_entry' = <<>>
         /\ reinforced' = reinforced
         /\ t_pc' = "resolve"
    ELSE /\ pending_entry' = pending_entry
         /\ reinforced' = TRUE
         /\ t_pc' = "tick"

\* register_open_trade, lines 38-67: the overwrite guard is read without the
\* lock and lets the payload through; the bucket is built
RegAccept ==
    /\ t_pc = "reg_check"
    /\ ~RegisterRejects(pending, t_payload[1])
    /\ t_pc' = "reg_insert"
    /\ UNCHANGED <<now, watcherVars, pollVars, pushVars, tick_time, active_order,
                   pending_entry, reinforced, t_caller, opened, order_id, buyLog,
                   nextId, t_payload, opens>>

\* register_open_trade, lines 68-69: insert under the lock
RegInsert ==
    /\ t_pc = "reg_insert"
    /\ lock = "free"
    /\ pending' = PutBucket(pending, MakeBucket(t_payload[1], now))
    /\ t_pc' = "reg_set"
    /\ UNCHANGED <<now, lock, sink, sink_lost, fallback_event, running, pollVars, pushVars,
                   tick_time, active_order, pending_entry, reinforced, t_caller,
                   opened, order_id, buyLog, nextId, t_payload, opens>>

\* register_open_trade, line 70: raise the wake signal; open_order returns
RegSet ==
    /\ t_pc = "reg_set"
    /\ fallback_event' = TRUE
    /\ OrderReturned
    /\ t_caller' = "none"
    /\ t_payload' = <<>>
    /\ UNCHANGED <<now, pending, lock, sink, sink_lost, running, pollVars, pushVars, tick_time,
                   active_order, opened, order_id, buyLog, nextId, opens>>

Elapsed == tick_time - active_order[1].open_time
DurationCfg == active_order[1].duration * Minute

\* _resolve_trade, lines 479-481: no active order; the tick ends with the
\* non-blocking trigger (run, lines 280-285)
ResolveIdle ==
    /\ t_pc = "resolve"
    /\ ~HasActiveOrder
    /\ fallback_event' = TRUE
    /\ t_pc' = "tick"
    /\ UNCHANGED <<now, pending, lock, sink, sink_lost, running, pollVars, pushVars, tick_time,
                   active_order, pending_entry, reinforced, t_caller, opened,
                   order_id, buyLog, nextId, t_payload, opens>>

\* _resolve_trade, lines 495-499, with _try_reinforce returning without an order
\* (already reinforced, no candle, or no price improvement); the tick ends
\* with the non-blocking trigger
ResolveWait ==
    /\ t_pc = "resolve"
    /\ HasActiveOrder
    /\ Elapsed < DurationCfg
    /\ fallback_event' = TRUE
    /\ t_pc' = "tick"
    /\ UNCHANGED <<now, pending, lock, sink, sink_lost, running, pollVars, pushVars, tick_time,
                   active_order, pending_entry, reinforced, t_caller, opened,
                   order_id, buyLog, nextId, t_payload, opens>>

\* _resolve_trade line 498 -> _try_reinforce lines 424-444 ->
\* _execute_reinforcement line 452: open_order is called for the same asset
ResolveReinforce ==
    /\ t_pc = "resolve"
    /\ HasActiveOrder
    /\ Elapsed < DurationCfg
    /\ ~reinforced
    /\ t_caller' = "reinforce"
    /\ opened' = FALSE
    /\ order_id' = None
    /\ buyLog' = <<>>
    /\ t_pc' = "buy"
    /\ UNCHANGED <<now, watcherVars, pollVars, pushVars, tick_time, active_order,
                   pending_entry, reinforced, nextId, t_payload, opens>>

\* Fault variant of the duration timeout: it also expires the registry entry
\* of the order into a DRAW record.
ResolveTimeoutExpires ==
    /\ t_pc = "resolve"
    /\ HasActiveOrder
    /\ ~(Elapsed < DurationCfg)
    /\ active_order' = <<>>
    /\ reinforced' = FALSE
    /\ fallback_event' = TRUE
    /\ t_pc' = "tick"
    /\ lock = "free"
    /\ pending' = PopTid(pending, active_order[1].trade_id)
    /\ sink' = Append(sink, [trade_id |-> active_order[1].trade_id,
                             open_time |-> active_order[1].open_time,
                             outcome_real |-> "DRAW", profit_real |-> 0])
    /\ UNCHANGED <<now, lock, sink_lost, running, pollVars, pushVars, tick_time,
                   pending_entry, t_caller, opened, order_id, buyLog, nextId,
                   t_payload, opens>>

\* Fault variant of the duration timeout: the slot is kept.
ResolveTimeoutKeeps ==
    /\ t_pc = "resolve"
    /\ HasActiveOrder
    /\ ~(Elapsed < DurationCfg)
    /\ fallback_event' = TRUE
    /\ t_pc' = "tick"
    /\ UNCHANGED <<now, pending, lock, sink, sink_lost, running, pollVars, pushVars, tick_time,
                   active_order, pending_entry, reinforced, t_caller, opened,
                   order_id, buyLog, nextId, t_payload, opens>>

\* _resolve_trade, lines 501-505: the duration timeout releases the slot; the
\* tick ends with the non-blocking trigger
ResolveTimeout ==
    /\ t_pc = "resolve"
    /\ HasActiveOrder
    /\ ~(Elapsed < DurationCfg)
    /\ active_order' = <<>>
    /\ reinforced' = FALSE
    /\ fallback_event' = TRUE
    /\ t_pc' = "tick"
    /\ UNCHANGED <<now, pending, lock, sink, sink_lost, running, pollVars, pushVars, tick_time,
                   pending_entry, t_caller, opened, order_id, buyLog, nextId,
                   t_payload, opens>>

\* ------------------------------------------------- the background poller
\* _fallback_loop, line 93
PollerLoop ==
    /\ p_pc = "loop"
    /\ running
    /\ p_pc' = "wait"
    /\ UNCHANGED <<now, watcherVars, tickVars, pushVars, p_snapshot, p_idx, p_now,
                   p_cache, p_oid, p_found>>

\* _fallback_loop, line 94: wait() returns because the event is set
PollerWake ==
    /\ p_pc = "wait"
    /\ fallback_event
    /\ p_pc' = "clear"
    /\ UNCHANGED <<now, watcherVars, tickVars, pushVars, p_snapshot, p_idx, p_now,
                   p_cache, p_oid, p_found>>

\* _fallback_loop, line 94: wait() returns on the 3 s timeout (how long the
\* poller has waited is not tracked: the timeout may fire at any moment)
PollerTimeout ==
    /\ p_pc = "wait"
    /\ ~fallback_event
    /\ p_pc' = "clear"
    /\ UNCHANGED <<now, watcherVars, tickVars, pushVars, p_snapshot, p_idx, p_now,
                   p_cache, p_oid, p_found>>

\* _fallback_loop, line 95
PollerClear ==
    /\ p_pc = "clear"
    /\ fallback_event' = FALSE
    /\ p_pc' = "pass"
    /\ UNCHANGED <<now, pending, lock, sink, sink_lost, running, tickVars, pushVars, p_snapshot,
                   p_idx, p_now, p_cache, p_oid, p_found>>

\* _execute_fallback_pass, lines 110-115: the buckets copied under the lock
Unresolved(pend) == SelectSeq(pend, LAMBDA b : ~b.resolved)

\* _execute_fallback_pass, lines 110-117: the snapshot is empty
PassEmpty ==
    /\ p_pc = "pass"
    /\ lock = "free"
    /\ Unresolved(pending) = <<>>
    /\ p_pc' = "loop"
    /\ UNCHANGED <<now, watcherVars, tickVars, pushVars, p_snapshot, p_idx, p_now,
                   p_cache, p_oid, p_found>>

\* _execute_fallback_pass, lines 110-119: snapshot, now, empty cache
PassSnapshot ==
    /\ p_pc = "pass"
    /\ lock = "free"
    /\ Unresolved(pending) # <<>>
    /\ p_snapshot' = Unresolved(pending)
    /\ p_now' = now
    /\ p_cache' = NoCache
    /\ p_idx' = 1
    /\ p_found' = NoFound
    /\ p_oid' = None
    /\ p_pc' = "iter"
    /\ UNCHANGED <<now, watcherVars, tickVars, pushVars>>

\* _execute_fallback_pass returns: its locals are gone
PassLeaves ==
    /\ p_pc' = "loop"
    /\ p_snapshot' = <<>>
    /\ p_idx' = 0
    /\ p_now' = 0
    /\ p_cache' = NoCache
    /\ p_oid' = None
    /\ p_found' = NoFound

\* _execute_fallback_pass, line 120: the loop over the snapshot is over
PassEnd ==
    /\ p_pc = "iter"
    /\ p_idx > Len(p_snapshot)
    /\ PassLeaves
    /\ UNCHANGED <<now, watcherVars, tickVars, pushVars>>

\* _execute_fallback_pass, lines 121-127: the entry is skipped before expiry
PassSkipNotDue ==
    /\ p_pc = "iter"
    /\ p_idx <= Len(p_snapshot)
    /\ NotDue(p_snapshot[p_idx], p_now)
    /\ p_idx' = p_idx + 1
    /\ UNCHANGED <<now, watcherVars, tickVars, pushVars, p_pc, p_snapshot, p_now,
                   p_cache, p_oid, p_found>>

\* Fault variant of the due step: the closed list is fetched for every due entry.
PassDueRefetches ==
    /\ p_pc = "iter"
    /\ p_idx <= Len(p_snapshot)
    /\ ~NotDue(p_snapshot[p_idx], p_now)
    /\ p_snapshot[p_idx].option_id # None
    /\ p_oid' = p_snapshot[p_idx].option_id
    /\ p_pc' = "fetch"
    /\ UNCHANGED <<now, watcherVars, tickVars, pushVars, p_snapshot, p_idx, p_now,
                   p_cache, p_found>>

\* _execute_fallback_pass, lines 128-147: a due entry with a reference; the
\* closed list is needed, and fetched only if this pass has not fetched it
PassDue ==
    /\ p_pc = "iter"
    /\ p_idx <= Len(p_snapshot)
    /\ ~NotDue(p_snapshot[p_idx], p_now)
    /\ p_snapshot[p_idx].option_id # None
    /\ p_oid' = p_snapshot[p_idx].option_id
    /\ p_pc' = IF p_cache.fetched THEN "extract" ELSE "fetch"
    /\ UNCHANGED <<now, watcherVars, tickVars, pushVars, p_snapshot, p_idx, p_now,
                   p_cache, p_found>>

\* _execute_fallback_pass, lines 128-143: a due entry without a reference whose
\* stored identifiers still give none is skipped
PassSkipNoId ==
    /\ p_pc = "iter"
    /\ p_idx <= Len(p_snapshot)
    /\ ~NotDue(p_snapshot[p_idx], p_now)
    /\ p_snapshot[p_idx].option_id = None
    /\ LazyOptionId(p_snapshot[p_idx]) = None
    /\ p_idx' = p_idx + 1
    /\ UNCHANGED <<now, watcherVars, tickVars, pushVars, p_pc, p_snapshot, p_now,
                   p_cache, p_oid, p_found>>

\* _execute_fallback_pass, lines 128-135: a due entry without a reference whose
\* stored identifiers now give one
PassLazyId ==
    /\ p_pc = "iter"
    /\ p_idx <= Len(p_snapshot)
    /\ ~NotDue(p_snapshot[p_idx], p_now)
    /\ p_snapshot[p_idx].option_id = None
    /\ LazyOptionId(p_snapshot[p_idx]) # None
    /\ p_oid' = LazyOptionId(p_snapshot[p_idx])
    /\ p_pc' = "store"
    /\ UNCHANGED <<now, watcherVars, tickVars, pushVars, p_snapshot, p_idx, p_now,
                   p_cache, p_found>>

\* Fault variant of the store: the live entry is left without the reference.
StoreNothing(pend, tid, oid) == pend

\* live["option_id"] = option_id on the live bucket of tid, if there is one
StoreOptionId(pend, tid, oid) ==
    LET i == IndexOf(pend, tid)
    IN  IF i = 0 THEN pend ELSE [pend EXCEPT ![i].option_id = oid]

\* _execute_fallback_pass, lines 136-147: the reference is stored in the live
\* entry under the lock; the closed list is needed next
PassStoreId ==
    /\ p_pc = "store"
    /\ lock = "free"
    /\ pending' = StoreOptionId(pending, p_snapshot[p_idx].tid, p_oid)
    /\ p_pc' = IF p_cache.fetched THEN "extract" ELSE "fetch"
    /\ UNCHANGED <<now, lock, sink, sink_lost, fallback_event, running, tickVars, pushVars,
                   p_snapshot, p_idx, p_now, p_cache, p_oid, p_found>>

\* The brokerage's recently-closed list: at most one record per issued id, in
\* id order, each of one of these shapes.
ClosedShapes ==
    { [result |-> "win",   win |-> NoLabel, profit_amount |-> 80,   win_amount |-> None, amount |-> None, actual_expire |-> None],
      [result |-> NoLabel, win |-> NoLabel, profit_amount |-> 80,   win_amount |-> None, amount |-> None, actual_expire |-> None] }

ClosedRecord(id, shape) ==
    [option_id |-> id, id0 |-> None, result |-> shape.result, win |-> shape.win,
     profit_amount |-> shape.profit_amount, win_amount |-> shape.win_amount,
     amount |-> shape.amount, actual_expire |-> shape.actual_expire]

RECURSIVE ClosedListsUpTo(_)
ClosedListsUpTo(n) ==
    IF n = 0 THEN {<<>>}
    ELSE LET shorter == ClosedListsUpTo(n - 1)
         IN  shorter \cup
             {Append(l, ClosedRecord(n, sh)) : l \in shorter, sh \in ClosedShapes}

\* Fault variant of a failed fetch: the entry in hand is dropped as if closed.
FetchFailDrops ==
    /\ p_pc = "fetch"
    /\ pending' = PopTid(pending, p_snapshot[p_idx].tid)
    /\ PassLeaves
    /\ UNCHANGED <<now, lock, sink, sink_lost, fallback_event, running, tickVars, pushVars>>

\* _fetch_closed_options, lines 182-193 returning None (the call raised, or the
\* payload was not a dict or held no list) and the pass returning at line 147;
\* a payload whose "msg" is not a dict raises at line 189 instead, which ends
\* the pass the same way (caught at line 98)
FetchFail ==
    /\ p_pc = "fetch"
    /\ PassLeaves
    /\ UNCHANGED <<now, watcherVars, tickVars, pushVars>>

\* _fetch_closed_options, lines 182-192 returning the list
FetchList ==
    /\ p_pc = "fetch"
    /\ \E l \in ClosedListsUpTo(nextId - 1) : p_cache' = [fetched |-> TRUE, list |-> l]
    /\ p_pc' = "extract"
    /\ UNCHANGED <<now, watcherVars, tickVars, pushVars, p_snapshot, p_idx, p_now,
                   p_oid, p_found>>

\* _fetch_closed_options, lines 182-192 returning the list l
PollFetch(l) ==
    /\ p_pc = "fetch"
    /\ p_cache' = [fetched |-> TRUE, list |-> l]
    /\ p_pc' = "extract"
    /\ UNCHANGED <<now, watcherVars, tickVars, pushVars, p_snapshot, p_idx, p_now,
                   p_oid, p_found>>

\* _execute_fallback_pass, lines 148-153: no outcome for this entry
PassWait ==
    /\ p_pc = "extract"
    /\ ExtractResultFromClosed(p_cache.list, p_oid).outcome = NoLabel
    /\ p_found' = ExtractResultFromClosed(p_cache.list, p_oid)
    /\ p_idx' = p_idx + 1
    /\ p_pc' = "iter"
    /\ UNCHANGED <<now, watcherVars, tickVars, pushVars, p_snapshot, p_now, p_cache,
                   p_oid>>

\* _execute_fallback_pass, lines 154-159: float() of the record's close time
\* raises when the field holds text that is no number
CloseTimeRaises(found, entries) ==
    found.entry # 0 /\ entries[found.entry].actual_expire = Token

\* _execute_fallback_pass, lines 148-159: an outcome was extracted but the
\* record's close time does not convert; nothing in the loop catches the
\* exception, which leaves the pass and is logged by _fallback_loop (line 98)
PassRaises ==
    /\ p_pc = "extract"
    /\ ExtractResultFromClosed(p_cache.list, p_oid).outcome # NoLabel
    /\ CloseTimeRaises(ExtractResultFromClosed(p_cache.list, p_oid), p_cache.list)
    /\ PassLeaves
    /\ UNCHANGED <<now, watcherVars, tickVars, pushVars>>

\* _execute_fallback_pass, lines 148-173: an outcome was extracted
PassMatch ==
    /\ p_pc = "extract"
    /\ ExtractResultFromClosed(p_cache.list, p_oid).outcome # NoLabel
    /\ ~CloseTimeRaises(ExtractResultFromClosed(p_cache.list, p_oid), p_cache.list)
    /\ p_found' = ExtractResultFromClosed(p_cache.list, p_oid)
    /\ p_pc' = "log"
    /\ UNCHANGED <<now, watcherVars, tickVars, pushVars, p_snapshot, p_idx, p_now,
                   p_cache, p_oid>>

\* _execute_fallback_pass, line 174: the closure record goes to the sink
PassLog ==
    /\ p_pc = "log"
    /\ sink' = Append(sink, FinalRecord(p_snapshot[p_idx].open,
                                        PollCloseEvent(p_found, p_now)))
    /\ p_pc' = "remove"
    /\ UNCHANGED <<sink_lost, now, pending, lock, fallback_event, running, tickVars, pushVars,
                   p_snapshot, p_idx, p_now, p_cache, p_oid, p_found>>

\* _execute_fallback_pass, line 174, when log_close cannot write: the exception
\* stays inside log_close (logger.py:256, 304-305) and the pass goes on
PassLogFails ==
    /\ p_pc = "log"
    /\ sink_lost' = Append(sink_lost, p_snapshot[p_idx].tid)
    /\ p_pc' = "remove"
    /\ UNCHANGED <<now, pending, lock, sink, fallback_event, running, tickVars, pushVars,
                   p_snapshot, p_idx, p_now, p_cache, p_oid, p_found>>

\* _execute_fallback_pass, lines 175-179: the live entry, if any, is removed
PassRemove ==
    /\ p_pc = "remove"
    /\ lock = "free"
    /\ pending' = PopTid(pending, p_snapshot[p_idx].tid)
    /\ p_idx' = p_idx + 1
    /\ p_pc' = "iter"
    /\ UNCHANGED <<now, lock, sink, sink_lost, fallback_event, running, tickVars, pushVars,
                   p_snapshot, p_now, p_cache, p_oid, p_found>>

\* ------------------------------------------------------ the push callback
\* closure events delivered to handle_websocket_close
SysEvents ==
    [close_time : {now} \cup {pending[i].open.open_time : i \in 1..Len(pending)},
     result : {"win"},
     profit_amount : {80}]

\* handle_websocket_close, lines 76-86: the event is read, the lock taken and
\* the registry scanned for the first bucket inside the window
PushLock(ev) ==
    /\ w_pc = "idle"
    /\ PushAccepted(ev)
    /\ lock = "free"
    /\ lock' = "push"
    /\ w_ev' = ev
    /\ w_hit' = PushHit(pending, PyRoundSec(ev.close_time))
    /\ w_pc' = "locked"
    /\ UNCHANGED <<now, pending, sink, sink_lost, fallback_event, running, tickVars, pollVars, api_calls>>

\* _resolve_and_log, line 339: float() of a profit_amount that holds text
\* which is no number raises
ResolveRaises(ev) == ev.profit_amount = Token

\* Fault variant of the raising resolver: the lock is not given back.
PushRaisesHolds ==
    /\ w_pc = "locked"
    /\ w_hit # 0
    /\ ResolveRaises(w_ev)
    /\ w_pc' = "idle"
    /\ w_ev' = NoEvent
    /\ w_hit' = 0
    /\ UNCHANGED <<now, watcherVars, tickVars, pollVars, api_calls>>

\* handle_websocket_close, lines 84-87: _resolve_and_log raises inside the
\* with block; the lock is released, nothing is logged or deleted, and the
\* exception goes to the caller
PushRaises ==
    /\ w_pc = "locked"
    /\ w_hit # 0
    /\ ResolveRaises(w_ev)
    /\ lock' = "free"
    /\ w_pc' = "idle"
    /\ w_ev' = NoEvent
    /\ w_hit' = 0
    /\ UNCHANGED <<now, pending, sink, sink_lost, fallback_event, running, tickVars,
                   pollVars, api_calls>>

\* handle_websocket_close, lines 87-90: resolve, mark, delete, leave the lock
PushResolve ==
    /\ w_pc = "locked"
    /\ w_hit # 0
    /\ ~ResolveRaises(w_ev)
    /\ sink' = Append(sink, FinalRecord(pending[w_hit].open, w_ev))
    /\ pending' = RemoveAt(pending, w_hit)
    /\ lock' = "free"
    /\ w_pc' = "idle"
    /\ w_ev' = NoEvent
    /\ w_hit' = 0
    /\ UNCHANGED <<now, sink_lost, fallback_event, running, tickVars, pollVars, api_calls>>

\* handle_websocket_close, lines 87-90, when log_close cannot write: the
\* exception stays inside log_close; mark, delete, leave the lock
PushResolveFails ==
    /\ w_pc = "locked"
    /\ w_hit # 0
    /\ ~ResolveRaises(w_ev)
    /\ sink_lost' = Append(sink_lost, pending[w_hit].tid)
    /\ pending' = RemoveAt(pending, w_hit)
    /\ lock' = "free"
    /\ w_pc' = "idle"
    /\ w_ev' = NoEvent
    /\ w_hit' = 0
    /\ UNCHANGED <<now, sink, fallback_event, running, tickVars, pollVars, api_calls>>

\* handle_websocket_close, lines 85-90: no bucket inside the window
PushMiss ==
    /\ w_pc = "locked"
    /\ w_hit = 0
    /\ lock' = "free"
    /\ w_pc' = "idle"
    /\ w_ev' = NoEvent
    /\ UNCHANGED <<now, pending, sink, sink_lost, fallback_event, running, tickVars, pollVars, w_hit, api_calls>>

\* ------------------------------------------------------ the whole program
Next ==
    \/ Advance
    \/ TickNoScan \/ TickScanNone \/ TickScanBest \/ EnterOpen
    \/ \E o \in BuyOutcomes : Buy(o)
    \/ OpenFailEnter \/ OpenFailReinforce \/ OpenBuild
    \/ RegAccept \/ RegInsert \/ RegSet
    \/ ResolveIdle \/ ResolveWait \/ ResolveReinforce \/ ResolveTimeout
    \/ PollerLoop \/ PollerWake \/ PollerTimeout \/ PollerClear
    \/ PassEmpty \/ PassSnapshot \/ PassEnd \/ PassSkipNotDue \/ PassDue
    \/ FetchFail \/ FetchList \/ PassWait \/ PassMatch \/ PassLog \/ PassRemove
    \/ \E ev \in SysEvents : PushLock(ev)
    \/ PushResolve \/ PushMiss

Spec == Init /\ [][Next]_vars

\* ------------------------------------------------------------------------
\* The watcher exercised on its own: register_open_trade called directly with
\* payloads that carry or lack a broker reference, and closure events whose
\* close_time lies around the open times.
ApiOpenTimes == {Minute, Minute + 1, Minute + 4 * MatchWindow}

ApiPayloads ==
    {MakeOrder(k, BaseStake, po, ot) : k \in 1..MaxOrders, po \in Payouts, ot \in ApiOpenTimes}
    \cup
    {[MakeOrder(k, BaseStake, po, ot) EXCEPT !.order_id = None, !.order_id_raw = None,
                                              !.be_option_id = None] :
        k \in 1..MaxOrders, po \in Payouts, ot \in ApiOpenTimes}

ApiEvents ==
    [close_time : (Minute - EventJitter)..(Minute + 4 * MatchWindow + EventJitter),
     result : {"win"},
     profit_amount : {80}]

\* register_open_trade, lines 38-57: the call returns at line 57
ApiRegisterRejected(p) ==
    /\ api_calls < MaxRegs
    /\ lock = "free"
    /\ RegisterRejects(pending, p)
    /\ t_payload' = <<p>>
    /\ api_calls' = api_calls + 1
    /\ UNCHANGED <<now, watcherVars, pollVars, w_pc, w_ev, w_hit, t_pc, tick_time,
                   active_order, pending_entry, reinforced, t_caller, opened,
                   order_id, buyLog, nextId, opens>>

\* register_open_trade, lines 38-70: the bucket is inserted, the wake signal set
ApiRegisterApplied(p) ==
    /\ api_calls < MaxRegs
    /\ lock = "free"
    /\ ~RegisterRejects(pending, p)
    /\ pending' = PutBucket(pending, MakeBucket(p, now))
    /\ fallback_event' = TRUE
    /\ t_payload' = <<p>>
    /\ api_calls' = api_calls + 1
    /\ UNCHANGED <<now, lock, sink, sink_lost, running, pollVars, w_pc, w_ev, w_hit, t_pc,
                   tick_time, active_order, pending_entry, reinforced, t_caller,
                   opened, order_id, buyLog, nextId, opens>>

InitApi ==
    /\ now = Minute - Grace
    /\ pending = <<>>
    /\ InitRest

NextApi ==
    \/ \E p \in ApiPayloads : ApiRegisterRejected(p)
    \/ \E p \in ApiPayloads : ApiRegisterApplied(p)
    \/ \E ev \in ApiEvents : PushLock(ev)
    \/ PushResolve \/ PushMiss

SpecApi == InitApi /\ [][NextApi]_vars

\* ------------------------------------------------------------------------
\* The watcher with a registry that already holds entries: the poller loop
\* runs its passes against closed lists of every shape while closure events
\* arrive and the clock moves from before the expiry to after it.
PassShapes ==
    { [result |-> NoLabel,   win |-> NoLabel, profit_amount |-> None, win_amount |-> None, amount |-> None, actual_expire |-> None],
      [result |-> "pending", win |-> NoLabel, profit_amount |-> None, win_amount |-> None, amount |-> None, actual_expire |-> None],
      [result |-> NoLabel,   win |-> "loose", profit_amount |-> None, win_amount |-> 0,    amount |-> 100, actual_expire |-> None],
      [result |-> "gana",    win |-> NoLabel, profit_amount |-> None, win_amount |-> 180,  amount |-> 100, actual_expire |-> None],
      [result |-> "equal",   win |-> NoLabel, profit_amount |-> 0,    win_amount |-> 100,  amount |-> 100, actual_expire |-> None],
      [result |-> "win",     win |-> NoLabel, profit_amount |-> 80,   win_amount |-> None, amount |-> None, actual_expire |-> Token] }

\* The closed lists of a pass: order 1 absent or in any shape, order 2 absent
\* or closed with a win label.
PassLists ==
    LET second == ClosedRecord(2, [result |-> "gana", win |-> NoLabel, profit_amount |-> None,
                                   win_amount |-> 180, amount |-> 100, actual_expire |-> None])
    IN  {<<>>, <<second>>}
        \cup {<<ClosedRecord(1, sh)>> : sh \in PassShapes}
        \cup {<<ClosedRecord(1, sh), second>> : sh \in PassShapes}

PassOpenTimes == {Minute + 2 * Grace}

\* Payloads of order k as register_open_trade can receive them: the order as
\* open_order builds it; one whose identifiers did not parse as integers
\* (execution.py:83-87 keeps the raw id); one that carries the raw id only.
PassPayloads(k, times) ==
    UNION { LET o == MakeOrder(k, BaseStake, po, ot)
            IN  { o,
                  [o EXCEPT !.order_id = Token, !.order_id_raw = Token,
                            !.be_option_id = Token],
                  [o EXCEPT !.order_id = None, !.be_option_id = None] }
            : po \in Payouts, ot \in times }

PassRegistries ==
    {<<MakeBucket(p, Minute), MakeBucket(q, Minute + Grace)>> :
        p \in PassPayloads(1, PassOpenTimes), q \in {MakeOrder(2, BaseStake, 80, Minute)}}

PassEvents ==
    [close_time : {now},
     result : {"pending", NoLabel},
     profit_amount : {None}]
    \cup
    [close_time : {Minute},
     result : {"gana"},
     profit_amount : {None}]

\* _run_fallback_check(blocking=False), lines 104-105: the non-blocking trigger
RunFallbackCheck ==
    /\ ~fallback_event
    /\ fallback_event' = TRUE
    /\ UNCHANGED <<now, pending, lock, sink, sink_lost, running, tickVars, pollVars, pushVars>>

InitPass ==
    /\ now = Minute + Jitter
    /\ pending \in PassRegistries
    /\ InitRest

NextPass ==
    \/ Advance
    \/ RunFallbackCheck
    \/ PollerLoop \/ PollerWake \/ PollerTimeout \/ PollerClear
    \/ PassEmpty \/ PassSnapshot \/ PassEnd \/ PassSkipNotDue \/ PassDue
    \/ PassSkipNoId \/ PassLazyId \/ PassStoreId
    \/ FetchFail
    \/ \E l \in PassLists : PollFetch(l)
    \/ PassWait \/ PassRaises \/ PassMatch \/ PassLog \/ PassLogFails \/ PassRemove
    \/ \E ev \in PassEvents : PushLock(ev)
    \/ PushResolve \/ PushResolveFails \/ PushMiss

SpecPass == InitPass /\ [][NextPass]_vars

\* ------------------------------------------------------------------------
\* _resolve_and_log as a function of the open payload and the closure event:
\* the registry holds one entry, and one closure event is delivered.
FnPayloads == {MakeOrder(1, st, po, Minute) : st \in {100, 1000}, po \in {80, 85}}

FnLabels == WinSynonyms \cup LossSynonyms \cup DrawSynonyms \cup {NoLabel, "pending"}

FnEvents ==
    [close_time : {Minute, 2 * Minute},
     result : FnLabels,
     profit_amount : {None, 0, 500, 0 - 1000}]

InitFn ==
    /\ now = Minute
    /\ \E p \in FnPayloads : pending = <<MakeBucket(p, Minute)>>
    /\ InitRest

NextFn ==
    \/ \E ev \in FnEvents : PushLock(ev)
    \/ PushResolve \/ PushMiss

SpecFn == InitFn /\ [][NextFn]_vars

\* ------------------------------------------------------------------------
\* Claims

SinkCount(tid) == Cardinality({i \in 1..Len(sink) : sink[i].trade_id = tid})

\* C1: whatever the interleaving of push and poll attempts on one trade id,
\* at most one closure record for it reaches the sink.
C1_AtMostOnce == \A i \in 1..Len(sink) : SinkCount(sink[i].trade_id) <= 1

\* C2: open_order (the brokerage call of its retry loop) is never running
\* while has_active_order() is true.
C2_NoSubmitWhileActive == t_pc \in {"buy", "after_loop"} => ~HasActiveOrder

\* C3: the registry never holds more than one unresolved entry.
C3_SingleFlight == Len(Unresolved(pending)) <= 1

\* C4: when the poller has looked up a due entry of an order with stake 1.00
\* and payout 0.8 in a closed list whose matching record carries
\* profit_amount = 0.80 and no label, the order is resolved: one WIN / 0.80
\* record for it is in the sink and its entry is gone from the registry.
ProfitOnlyRecord(e) ==
    /\ e.result = NoLabel /\ e.win = NoLabel
    /\ e.profit_amount = 80 /\ e.win_amount = None /\ e.amount = None

C4_PollResolves ==
    (/\ p_pc = "iter"
     /\ Len(p_snapshot) = 1
     /\ p_idx = 2
     /\ p_found.entry # 0
     /\ ProfitOnlyRecord(p_cache.list[p_found.entry])
     /\ p_snapshot[1].open.stake = 100
     /\ p_snapshot[1].open.payout = 80)
    => /\ IndexOf(pending, p_snapshot[1].tid) = 0
       /\ SinkCount(p_snapshot[1].tid) = 1
       /\ \A i \in 1..Len(sink) :
             sink[i].trade_id = p_snapshot[1].tid
             => sink[i].outcome_real = "WIN" /\ sink[i].profit_real = 80

PushResolveStep == w_pc = "locked" /\ w_pc' = "idle" /\ w_hit # 0

\* C5: a closure event with a numeric profit and no label yields the outcome
\* given by the sign of the profit (WIN, LOSS, DRAW).
C5_OutcomeFromProfit ==
    [][ (PushResolveStep /\ w_ev.result = NoLabel /\ w_ev.profit_amount # None)
        => sink'[Len(sink')].outcome_real =
              (IF w_ev.profit_amount > 0 THEN "WIN"
               ELSE IF w_ev.profit_amount < 0 THEN "LOSS" ELSE "DRAW") ]_vars

\* C6: a closure event with a win label and no numeric profit yields WIN with
\* profit stake x payout; with a loss label and no numeric profit, LOSS with
\* profit -stake.
C6_LabelNoMagnitude ==
    [][ (PushResolveStep /\ w_ev.profit_amount = None)
        => LET r == sink'[Len(sink')]
               o == pending[w_hit].open
           IN  /\ w_ev.result \in WinSynonyms
                  => r.outcome_real = "WIN" /\ 100 * r.profit_real = o.stake * o.payout
               /\ w_ev.result \in LossSynonyms
                  => r.outcome_real = "LOSS" /\ r.profit_real = 0 - o.stake ]_vars

\* C7: a registration never erases a known broker reference: over an entry
\* that has one, a registration lacking one changes nothing, and a
\* registration carrying one leaves the entry with that reference.
C7_IdempotentRegistry ==
    [][ (api_calls' = api_calls + 1)
        => LET p == t_payload'[1]
               i == IndexOf(pending, p.trade_id)
               j == IndexOf(pending', p.trade_id)
           IN  /\ (i # 0 /\ pending[i].option_id # None)
                  => (j # 0 /\ pending'[j].option_id # None)
               /\ (i # 0 /\ pending[i].option_id # None /\ PayloadOptionId(p) = None)
                  => pending' = pending
               /\ PayloadOptionId(p) # None
                  => (j # 0 /\ pending'[j].option_id = PayloadOptionId(p)) ]_vars

C7_Witness ==
    /\ api_calls >= 2
    /\ t_payload # <<>>
    /\ PayloadOptionId(t_payload[1]) = None
    /\ LET j == IndexOf(pending, t_payload[1].trade_id)
       IN  /\ j # 0
           /\ pending[j].option_id # None
           /\ pending[j].open.open_time # t_payload[1].open_time

\* C8: the poller looks up and resolves only entries that are due
\* (now >= expire_ts - 0.5 s), and has queried the closed list only if an
\* entry of its snapshot is due.
C8_ExpiryGating ==
    /\ p_pc \in {"fetch", "extract", "log", "remove"}
       => /\ p_now >= p_snapshot[p_idx].expire_ts - 1
          /\ now >= p_snapshot[p_idx].expire_ts - 1
    /\ p_cache.fetched
       => \E i \in 1..Len(p_snapshot) : p_now >= p_snapshot[i].expire_ts - 1

C8_Witness ==
    /\ p_pc = "log"
    /\ \E j \in 1..Len(p_snapshot) : p_now < p_snapshot[j].expire_ts - 1

\* C9: a closure event resolves an entry only if the entry's open_ts is within
\* 2 s of the event's close_ts, resolves one whenever some entry is, and
\* otherwise leaves registry and sink unchanged.
C9_TimeWindowMatching ==
    [][ (w_pc = "locked" /\ w_pc' = "idle")
        => LET cts == PyRoundSec(w_ev.close_time)
               H == {i \in 1..Len(pending) : Abs(pending[i].open_ts - cts) <= 2}
           IN  IF H = {}
               THEN pending' = pending /\ sink' = sink
               ELSE \E i \in H :
                       /\ pending' = RemoveAt(pending, i)
                       /\ sink' = Append(sink, FinalRecord(pending[i].open, w_ev)) ]_vars

C9_Witness ==
    /\ w_pc = "locked"
    /\ w_hit # 0
    /\ Abs(pending[w_hit].open_ts - PyRoundSec(w_ev.close_time)) = 2
    /\ \E i \in 1..Len(pending) : Abs(pending[i].open_ts - PyRoundSec(w_ev.close_time)) > 2

\* C10: one open_order calls the brokerage at most 3 times, goes on only
\* after failed attempts, stops at the first confirmed id, and returns None
\* exactly when 3 attempts have failed.
AllFailed(log) == \A i \in 1..Len(log) : log[i] # "ok"

C10_BoundedRetry ==
    /\ Len(buyLog) <= 3
    /\ \A i \in 1..(Len(buyLog) - 1) : buyLog[i] # "ok"
    /\ t_pc = "buy" => AllFailed(buyLog) /\ Len(buyLog) < 3
    /\ t_pc = "after_loop"
       => /\ (~opened \/ order_id = None) <=> (Len(buyLog) = 3 /\ AllFailed(buyLog))
          /\ ~(~opened \/ order_id = None) => buyLog[Len(buyLog)] = "ok"

C10_Witness ==
    /\ t_pc = "after_loop"
    /\ buyLog = <<"exc", "reject", "noid">>
    /\ ~opened \/ order_id = None

\* C11: a submit that returns null after its retries changes neither the active
\* slot, nor the registry, nor the sink, nor the open records; when the caller
\* is _enter_trade there is no active order and the scheduled entry is cleared,
\* so the next scan can schedule again.
SubmitReturnsNone ==
    t_pc = "after_loop" /\ (~opened \/ order_id = None) /\ t_pc' # "after_loop"

C11_NoStateLeftBehind ==
    [][ /\ (t_pc = "buy" /\ buyLog' # buyLog) =>
              /\ active_order' = active_order /\ pending' = pending
              /\ sink' = sink /\ opens' = opens
        /\ SubmitReturnsNone =>
              /\ active_order' = active_order /\ pending' = pending
              /\ sink' = sink /\ opens' = opens
              /\ t_caller = "enter" => (pending_entry' = <<>> /\ ~HasActiveOrder')
      ]_vars

C11_Witness ==
    /\ t_pc = "after_loop" /\ t_caller = "enter"
    /\ Len(buyLog) = MAX_RETRIES /\ AllFailed(buyLog)
    /\ pending_entry # <<>>

\* C12: once a closure event has resolved and removed its first matching entry,
\* the same event delivered again finds no entry inside its window (so it emits
\* nothing and changes nothing).
C12_PushIdempotent ==
    [][ PushResolveStep => PushHit(pending', PyRoundSec(w_ev.close_time)) = 0 ]_vars

\* C13: a closure matched to a pending entry, by push or by poll, that carries
\* neither a profit nor a recognised label resolves the entry to DRAW with
\* profit 0: the poller goes on to log that record, the push resolver appends
\* it and removes the entry.
AmbiguousRecord(r) ==
    /\ NormalizeOutcomeLabel(ClosedRawOutcome(r)) = NoLabel
    /\ r.profit_amount = None /\ r.win_amount = None /\ r.amount = None

AmbiguousEvent(ev) ==
    NormalizeOutcomeLabel(ev.result) = NoLabel /\ ev.profit_amount = None

C13_AmbiguousIsDraw ==
    [][ /\ (/\ p_pc = "extract" /\ p_pc' # "extract"
             /\ ClosedIndexFrom(p_cache.list, p_oid, 1) # 0
             /\ AmbiguousRecord(p_cache.list[ClosedIndexFrom(p_cache.list, p_oid, 1)]))
            => /\ p_pc' = "log"
               /\ LET r == FinalRecord(p_snapshot[p_idx].open, PollCloseEvent(p_found', p_now))
                  IN  r.outcome_real = "DRAW" /\ r.profit_real = 0
        /\ (PushResolveStep /\ AmbiguousEvent(w_ev))
            => /\ sink' # sink => /\ sink'[Len(sink')].outcome_real = "DRAW"
                                 /\ sink'[Len(sink')].profit_real = 0
               /\ pending' = RemoveAt(pending, w_hit)
      ]_vars

\* C14: a closed-list fetch that fails ends the pass without a closure record
\* and without touching the registry; no pass logs or removes anything before
\* it holds a fetched list.
C14_FetchFailureNoOutcome ==
    [][ /\ (p_pc = "fetch" /\ p_pc' # "fetch" /\ ~p_cache'.fetched)
            => (sink' = sink /\ pending' = pending /\ p_pc' = "loop")
        /\ p_pc' \in {"log", "remove"} => p_cache'.fetched
      ]_vars

C14_Witness ==
    /\ p_pc = "fetch" /\ Len(p_snapshot) = 2 /\ p_idx = 2
    /\ Len(pending) = 2

\* C15: a due entry without a reference is re-derived from the stored
\* identifiers in each pass (every pass snapshots all unresolved entries); when
\* none comes out the entry is skipped, untouched; the poller fetches, logs and
\* removes only with a reference in hand; a reference that comes out is stored
\* in the live entry.
C15_UnresolvableIdentity ==
    [][ /\ (/\ p_pc = "iter" /\ p_idx <= Len(p_snapshot)
             /\ <<p_pc, p_idx>>' # <<p_pc, p_idx>>
             /\ ~NotDue(p_snapshot[p_idx], p_now)
             /\ p_snapshot[p_idx].option_id = None)
            => IF LazyOptionId(p_snapshot[p_idx]) = None
               THEN /\ p_pc' = "iter" /\ p_idx' = p_idx + 1
                    /\ pending' = pending /\ sink' = sink
               ELSE /\ p_pc' = "store" /\ p_oid' = LazyOptionId(p_snapshot[p_idx])
                    /\ pending' = pending /\ sink' = sink
        /\ (p_pc = "store" /\ p_pc' # "store")
            => /\ Len(pending') = Len(pending)
               /\ \A i \in 1..Len(pending') :
                     pending'[i].option_id =
                        IF pending[i].tid = p_snapshot[p_idx].tid THEN p_oid
                        ELSE pending[i].option_id
        /\ p_pc' \in {"fetch", "extract", "log", "remove"} => p_oid' # None
        /\ (p_pc = "pass" /\ p_pc' = "iter") => p_snapshot' = Unresolved(pending)
      ]_vars

C15_Witness ==
    /\ \E i \in 1..Len(pending) :
          pending[i].option_id # None /\ PayloadOptionId(pending[i].open) = None

\* C16: a closure record the sink fails to write does not stop the resolver:
\* the poller goes on to remove the entry, the push resolver removes it and
\* leaves the lock; and a trade whose record was lost is never put back in
\* the registry and no resolver produces a closure for it again.
C16_PersistenceFailure ==
    [][ /\ (p_pc = "log" /\ p_pc' # "log") => p_pc' = "remove"
        /\ (p_pc = "remove" /\ p_pc' # "remove")
            => IndexOf(pending', p_snapshot[p_idx].tid) = 0
        /\ PushResolveStep
            => (pending' = RemoveAt(pending, w_hit) /\ lock' = "free")
        /\ \A i \in 1..Len(sink_lost) :
              /\ IndexOf(pending, sink_lost[i]) = 0 => IndexOf(pending', sink_lost[i]) = 0
              /\ sink' # sink => sink'[Len(sink')].trade_id # sink_lost[i]
              /\ sink_lost' # sink_lost => sink_lost'[Len(sink_lost')] # sink_lost[i]
      ]_vars

\* C17: the actor that queries the brokerage or hands a closure record to the
\* sink does not hold the registry lock while it does so, on the poll path
\* (fetch, log) and on the push path (resolve).
C17_SplitPhaseLocking ==
    [][ /\ (p_pc \in {"fetch", "log"} /\ p_pc' # p_pc) => lock # "poll"
        /\ PushResolveStep => lock # "push"
      ]_vars

\* The poller step in which the processing of the current entry raises
PassEntryRaises ==
    /\ p_pc = "extract"
    /\ p_pc' # "extract"
    /\ ExtractResultFromClosed(p_cache.list, p_oid).outcome # NoLabel
    /\ CloseTimeRaises(ExtractResultFromClosed(p_cache.list, p_oid), p_cache.list)

\* C18: failure isolation in a poll pass. When the processing of one pending
\* entry raises an exception, the failing entry stays in the registry and the
\* pass goes on with the next entry of its snapshot, using the same snapshot,
\* so that a later due, matching entry is resolved in the same pass.
C18_FailureIsolation ==
    [][ PassEntryRaises =>
            /\ pending' = pending
            /\ sink' = sink
            /\ p_idx < Len(p_snapshot) =>
                    /\ p_pc' = "iter"
                    /\ p_idx' = p_idx + 1
                    /\ p_snapshot' = p_snapshot ]_vars

(***************************************************************************)
(* Registration and expiry gating: register_open_trade is called with      *)
(* payloads whose open time and duration vary, at varying wall-clock       *)
(* instants, and the poller runs passes against an empty closed list.      *)
(***************************************************************************)
\* instants at which the clock is observed: 0 s, 30 s, 59.5 s, 60 s, 120 s
ExpireInstants == {0, Minute \div 2, Minute - Grace, Minute, 2 * Minute}

\* open_time of the payloads: 0, 30 s, or None (missing)
ExpireOpenTimes == {0, Minute \div 2, None}

\* duration of the payloads in minutes: missing, zero, negative, 1, 2
ExpireDurations == {None, 0, 0 - 2, 1, 2}

ExpirePayloads ==
    {[MakeOrder(1, BaseStake, 80, ot) EXCEPT !.duration = d] :
        ot \in ExpireOpenTimes, d \in ExpireDurations}

\* time passes between two calls
ExpireAdvance ==
    /\ \E t \in ExpireInstants :
          /\ t > now
          /\ \A u \in ExpireInstants : u > now => t <= u
          /\ now' = t
    /\ UNCHANGED <<watcherVars, tickVars, pollVars, pushVars>>

InitExpire ==
    /\ now = 0
    /\ pending = <<>>
    /\ InitRest

NextExpire ==
    \/ ExpireAdvance
    \/ \E p \in ExpirePayloads : ApiRegisterApplied(p)
    \/ PollerLoop \/ PollerWake \/ PollerTimeout \/ PollerClear
    \/ PassEmpty \/ PassSnapshot \/ PassEnd \/ PassSkipNotDue \/ PassDue
    \/ PollFetch(<<>>) \/ PassWait

SpecExpire == InitExpire /\ [][NextExpire]_vars

\* what the registration of a payload with a stated open time must give
ExpectedExpireTs(payload) ==
    LET d == IF payload.duration = None \/ payload.duration <= 0 THEN 1
             ELSE payload.duration
    IN  payload.open_time + d * Minute

\* C19: expiry computation. For every stated opened_at and every duration,
\* a registered entry has expire_ts = opened_at + max(duration, 1) minutes,
\* a missing or non-positive duration counting as one minute, whatever the
\* wall clock was at registration; so an entry with opened_at = 0 and
\* duration = 1 is skipped by a pass at t = 30 s and is eligible at t = 60 s.
C19_ExpiryComputation ==
    [][ /\ \A i \in 1..Len(pending') :
            pending'[i].open.open_time # None =>
                pending'[i].expire_ts = ExpectedExpireTs(pending'[i].open)
        /\ (/\ p_pc = "iter" /\ p_idx <= Len(p_snapshot)
            /\ p_snapshot[p_idx].open.open_time = 0
            /\ p_snapshot[p_idx].open.duration = 1
            /\ (p_pc' # "iter" \/ p_idx' # p_idx)) =>
               /\ p_now = Minute \div 2 => p_pc' = "iter"
               /\ p_now = Minute => p_pc' # "iter" ]_vars

\* the canonical outcome of a label that is a synonym of win, loss or draw
CanonicalOutcome(label) ==
    IF label \in WinSynonyms THEN "WIN"
    ELSE IF label \in LossSynonyms THEN "LOSS" ELSE "DRAW"

AcceptedLabel(label) == label \in WinSynonyms \cup LossSynonyms \cup DrawSynonyms

\* C20: label normalization. Every label accepted as a synonym of win, loss
\* or draw gives its canonical outcome in the final record, whether the
\* closure comes in a push event or in a record of the closed list read by
\* the poller, and whatever the sign of a numeric profit that comes with it.
C20_LabelNormalization ==
    [][ /\ (PushResolveStep /\ sink' # sink /\ AcceptedLabel(w_ev.result))
            => sink'[Len(sink')].outcome_real = CanonicalOutcome(w_ev.result)
        /\ (/\ p_pc = "log" /\ p_pc' # "log" /\ sink' # sink
            /\ AcceptedLabel(ClosedRawOutcome(p_cache.list[p_found.entry])))
            => sink'[Len(sink')].outcome_real =
                  CanonicalOutcome(ClosedRawOutcome(p_cache.list[p_found.entry])) ]_vars

\* some entry of the registry is gone after the step
EntryRemoved == \E i \in 1..Len(pending) : IndexOf(pending', pending[i].tid) = 0

\* the push resolver acts on an entry inside the window of the event it holds
PushObserved ==
    /\ PushResolveStep
    /\ Abs(pending[w_hit].open_ts - PyRoundSec(w_ev.close_time)) <= MatchWindow

\* the poller acts holding a closed-list record whose reference is the entry's
PollObserved ==
    /\ p_pc \in {"log", "remove"}
    /\ p_pc' # p_pc
    /\ p_found.entry # 0
    /\ ClosedCandidate(p_cache.list[p_found.entry]) = p_oid

\* C21: no guessed outcome. An entry leaves the registry, and a closure
\* record is written, only in a step of the push resolver holding an event
\* inside the entry's window or of the poller holding a closed-list record
\* with the entry's broker reference; a pass step that finds no record, and
\* the duration timeout of the tick loop, change neither registry nor records.
C21_NoGuessedOutcome ==
    [][ /\ (EntryRemoved \/ sink' # sink) => (PushObserved \/ PollObserved)
        /\ (/\ p_pc = "extract" /\ p_pc' # "extract"
            /\ ExtractResultFromClosed(p_cache.list, p_oid).entry = 0)
            => pending' = pending /\ sink' = sink
        /\ (t_pc = "resolve" /\ HasActiveOrder /\ active_order' = <<>>)
            => pending' = pending /\ sink' = sink ]_vars

\* the duration timeout has released the slot of an order whose entry is
\* still pending, with no closure record written
C21_Witness ==
    /\ t_pc = "tick" /\ opens >= 1 /\ active_order = <<>>
    /\ sink = <<>>
    /\ \E i \in 1..Len(pending) : tick_time - pending[i].open.open_time >= Minute

\* C22: one fetch per pass. The poller queries the closed list only when the
\* pass holds no list yet and only for a due entry; a list once fetched is
\* kept unchanged until the pass is over, every extraction of the pass reads
\* it, and no list survives the pass; an empty registry starts no pass.
C22_OneFetchPerPass ==
    [][ /\ (p_pc = "fetch" /\ p_pc' # "fetch") => ~p_cache.fetched
        /\ p_pc' = "fetch" => /\ ~p_cache'.fetched
                              /\ ~NotDue(p_snapshot'[p_idx'], p_now')
        /\ p_cache.fetched => (p_cache' = p_cache \/ p_pc' = "loop")
        /\ p_pc' \in {"extract", "log", "remove"} => p_cache'.fetched
        /\ p_pc' \in {"loop", "wait", "clear", "pass"} => ~p_cache'.fetched
        /\ (p_pc = "pass" /\ p_pc' # "pass" /\ Unresolved(pending) = <<>>)
            => p_pc' = "loop" ]_vars

\* the second due entry of a pass is matched against the list fetched for
\* the first
C22_Witness ==
    /\ p_pc = "extract" /\ p_idx = 2 /\ p_cache.fetched
    /\ ~NotDue(p_snapshot[1], p_now) /\ ~NotDue(p_snapshot[2], p_now)
    /\ p_snapshot[1].option_id # None

(***************************************************************************)
(* Wake-up of the poller: a caller thread runs register_open_trade step by *)
(* step (guard, insert under the lock, wake signal) against the poller     *)
(* loop, whose wait here returns only on the signal; the closed list the   *)
(* poller reads is empty.                                                  *)
(***************************************************************************)
\* register_open_trade, line 37: a caller enters with the payload of a newly
\* opened order (the broker hands out fresh ids)
WakeRegisterCall ==
    /\ t_pc = "tick"
    /\ api_calls < MaxRegs
    /\ t_payload' = <<MakeOrder(api_calls + 1, BaseStake, 80, now)>>
    /\ api_calls' = api_calls + 1
    /\ t_pc' = "reg_check"
    /\ UNCHANGED <<now, watcherVars, pollVars, w_pc, w_ev, w_hit, tick_time,
                   active_order, pending_entry, reinforced, t_caller, opened,
                   order_id, buyLog, nextId, opens>>

\* Fault variant of the last step of register_open_trade: no wake signal.
WakeRegisterSilent ==
    /\ t_pc = "reg_set"
    /\ t_payload' = <<>>
    /\ t_pc' = "tick"
    /\ UNCHANGED <<now, watcherVars, pollVars, w_pc, w_ev, w_hit, tick_time,
                   active_order, pending_entry, reinforced, t_caller, opened,
                   order_id, buyLog, nextId, opens, api_calls>>

\* register_open_trade, line 70: raise the wake signal and return
WakeRegisterSet ==
    /\ t_pc = "reg_set"
    /\ fallback_event' = TRUE
    /\ t_payload' = <<>>
    /\ t_pc' = "tick"
    /\ UNCHANGED <<now, pending, lock, sink, sink_lost, running, pollVars, w_pc,
                   w_ev, w_hit, tick_time, active_order, pending_entry, reinforced,
                   t_caller, opened, order_id, buyLog, nextId, opens, api_calls>>

InitWake ==
    /\ now = Minute
    /\ pending = <<>>
    /\ InitRest

\* the steps of the caller thread
WakeCaller == RegAccept \/ RegInsert \/ WakeRegisterSet

\* the steps of the poller thread, the idle timeout left out
WakePoller ==
    \/ PollerLoop \/ PollerWake \/ PollerClear
    \/ PassEmpty \/ PassSnapshot \/ PassEnd \/ PassSkipNotDue
    \/ PassDue \/ PollFetch(<<>>) \/ PassWait

NextWake ==
    \/ WakeRegisterCall \/ RegAccept \/ RegInsert \/ WakeRegisterSet
    \/ RunFallbackCheck \/ Advance
    \/ PollerLoop \/ PollerWake \/ PollerClear
    \/ PassEmpty \/ PassSnapshot \/ PassEnd \/ PassSkipNotDue
    \/ PassDue \/ PollFetch(<<>>) \/ PassWait

\* both threads keep running: a thread that can take a step takes one
SpecWake == InitWake /\ [][NextWake]_vars /\ WF_vars(WakeCaller) /\ WF_vars(WakePoller)

\* the registration of trade k has inserted its entry
Inserted(k) ==
    t_pc = "reg_set" /\ t_payload[1].trade_id = <<Asset, k>>

\* a pass has just taken a snapshot that holds the entry of trade k
PassSees(k) ==
    p_pc = "iter" /\ p_idx = 1 /\ IndexOf(p_snapshot, <<Asset, k>>) # 0

\* C23: no lost wake-up. A registration inserts its entry in one step under
\* the lock and raises the wake signal afterwards, with the entry in the
\* registry; and whatever the poller is doing meanwhile, a pass whose
\* snapshot holds the entry starts, the idle timeout never being needed.
C23_NoLostWakeup ==
    /\ [][ /\ (t_pc = "reg_insert" /\ t_pc' # "reg_insert")
               => /\ lock = "free" /\ lock' = "free"
                  /\ IndexOf(pending', t_payload[1].trade_id) # 0
                  /\ fallback_event' = fallback_event
           /\ (t_pc = "reg_set" /\ t_pc' # "reg_set")
               => /\ fallback_event'
                  /\ IndexOf(pending, t_payload[1].trade_id) # 0 ]_vars
    /\ \A k \in 1..MaxRegs : Inserted(k) ~> PassSees(k)

\* the entry is inserted while the poller, woken earlier, is about to clear
\* the signal
C23_Witness ==
    /\ t_pc = "reg_set" /\ p_pc = "clear" /\ fallback_event
    /\ Len(pending) = 2

(***************************************************************************)
(* Cancellation: the main thread calls stop() while the poller loop runs   *)
(* over a registry of two entries.                                         *)
(***************************************************************************)
\* stop, line 418: the running flag is cleared
StopFlag ==
    /\ t_pc = "tick"
    /\ running
    /\ running' = FALSE
    /\ t_pc' = "stop_set"
    /\ UNCHANGED <<now, pending, lock, sink, sink_lost, fallback_event, pollVars,
                   pushVars, tick_time, active_order, pending_entry, reinforced,
                   t_caller, opened, order_id, buyLog, nextId, t_payload, opens>>

\* Fault variant of the second step of stop: the wake signal is not raised.
StopSilent ==
    /\ t_pc = "stop_set"
    /\ t_pc' = "stopped"
    /\ UNCHANGED <<now, watcherVars, pollVars, pushVars, tick_time, active_order,
                   pending_entry, reinforced, t_caller, opened, order_id, buyLog,
                   nextId, t_payload, opens>>

\* stop, line 419: the wake signal is raised
StopSet ==
    /\ t_pc = "stop_set"
    /\ fallback_event' = TRUE
    /\ t_pc' = "stopped"
    /\ UNCHANGED <<now, pending, lock, sink, sink_lost, running, pollVars, pushVars,
                   tick_time, active_order, pending_entry, reinforced, t_caller,
                   opened, order_id, buyLog, nextId, t_payload, opens>>

\* _fallback_loop, line 93: the loop reads the cleared flag and returns
PollerExit ==
    /\ p_pc = "loop"
    /\ ~running
    /\ p_pc' = "done"
    /\ UNCHANGED <<now, watcherVars, tickVars, pushVars, p_snapshot, p_idx, p_now,
                   p_cache, p_oid, p_found>>

\* get_optioninfo_v2 answers: nothing closed yet, or both orders closed
StopLists ==
    LET won == CHOOSE s \in ClosedShapes : s.result = "win"
    IN  {<<>>, <<ClosedRecord(1, won), ClosedRecord(2, won)>>}

InitStop ==
    /\ now = Minute + Jitter
    /\ pending = <<MakeBucket(MakeOrder(1, BaseStake, 80, Minute), Minute),
                   MakeBucket(MakeOrder(2, BaseStake, 80, Minute + 2 * Grace), Minute + 2 * Grace)>>
    /\ InitRest

\* the steps of the poller thread that do not depend on the idle timeout
StopPoller ==
    \/ PollerLoop \/ PollerExit \/ PollerWake \/ PollerClear
    \/ PassEmpty \/ PassSnapshot \/ PassEnd \/ PassSkipNotDue \/ PassDue
    \/ (\E l \in StopLists : PollFetch(l))
    \/ PassWait \/ PassMatch \/ PassLog \/ PassRemove

NextStop ==
    \/ Advance \/ StopFlag \/ StopSet
    \/ PollerLoop \/ PollerExit \/ PollerWake \/ PollerTimeout \/ PollerClear
    \/ PassEmpty \/ PassSnapshot \/ PassEnd \/ PassSkipNotDue \/ PassDue
    \/ FetchFail
    \/ \E l \in StopLists : PollFetch(l)
    \/ PassWait \/ PassMatch \/ PassLog \/ PassRemove

\* stop() runs to its end, and the poller thread keeps running; its wait is
\* not assumed to time out, and a brokerage query is assumed to answer
SpecStop == InitStop /\ [][NextStop]_vars /\ WF_vars(StopSet) /\ WF_vars(StopPoller)

\* C24: cancellation. Once stop() has cleared the running flag the poller
\* loop terminates, whatever step it was at; stop() leaves a pass in progress
\* untouched, the loop ends only at its own check of the flag, and having
\* ended it starts nothing again.
C24_Cancellation ==
    /\ [][ /\ (t_pc \in {"tick", "stop_set"} /\ t_pc' # t_pc)
               => UNCHANGED <<pollVars, pending, sink, lock>>
           /\ (p_pc' = "done" /\ p_pc # "done") => (p_pc = "loop" /\ ~running)
           /\ p_pc = "done" => UNCHANGED <<pollVars, pending, sink, lock>>
           /\ (p_pc = "loop" /\ p_pc' = "wait") => running ]_vars
    /\ (~running) ~> (p_pc = "done")

\* stop() has run to its end while a brokerage query of the poller is in flight
C24_Witness ==
    /\ ~running /\ t_pc = "stopped" /\ p_pc = "fetch"

\* the event the push resolver holds carries the actual close time of entry i
OwnClosure(i) ==
    /\ pending[i].open.open_time # None
    /\ pending[i].open.duration # None /\ pending[i].open.duration >= 1
    /\ w_ev.close_time = pending[i].open.open_time + pending[i].open.duration * Minute

\* C25: push resolution of an order's own closure. When the push resolver
\* handles the event that carries the actual close time of a pending order
\* (open time plus duration), it resolves and removes that order's entry.
C25_OwnClosureResolves ==
    [][ (w_pc = "locked" /\ w_pc' = "idle")
        => \A i \in 1..Len(pending) :
              OwnClosure(i) => /\ IndexOf(pending', pending[i].tid) = 0
                               /\ sink' = Append(sink, FinalRecord(pending[i].open, w_ev)) ]_vars

(***************************************************************************)
(* The active slot: the tick loop of the orchestrator (scan, entry,        *)
(* open_order, registration, reinforcement, duration timeout) and the      *)
(* websocket message handler of the orchestrator, without the watcher's    *)
(* resolvers.                                                              *)
(***************************************************************************)
\* bot.py, lines 80-93: json is imported in the class body only, so the name
\* is not in scope inside _ws_on_message; json.loads raises NameError
JsonInScope == FALSE

\* _handle_option_closed, line 150: str(active.get("id", "")); None stands
\* for the empty string of an order without that key
ActiveId(order) == IF "id" \in DOMAIN order THEN order.id ELSE None

\* identifiers carried by option-closed messages
WsIds == 1..MaxOrders

\* _ws_on_message, line 91: the websocket thread delivers an option-closed
\* message with identifier m
WsReceive(m) ==
    /\ w_pc = "idle"
    /\ w_ev' = [name |-> "option-closed", id |-> m, profit_amount |-> 80]
    /\ w_pc' = "ws_msg"
    /\ UNCHANGED <<now, watcherVars, tickVars, pollVars, w_hit, api_calls>>

\* _handle_option_closed, lines 119-187: the slot after the handler has run
WsOptionClosed ==
    IF HasActiveOrder /\ w_ev.id = ActiveId(active_order[1])
    THEN active_order' = <<>> /\ reinforced' = FALSE
    ELSE UNCHANGED <<active_order, reinforced>>

\* _ws_on_message, lines 92-102: the message is parsed and, if that worked,
\* handed to _handle_option_closed; a failed parse returns at line 95
WsDeliver ==
    /\ w_pc = "ws_msg"
    /\ IF JsonInScope THEN WsOptionClosed ELSE UNCHANGED <<active_order, reinforced>>
    /\ w_ev' = NoEvent
    /\ w_pc' = "idle"
    /\ UNCHANGED <<now, watcherVars, pollVars, w_hit, api_calls, t_pc, tick_time,
                   pending_entry, t_caller, opened, order_id, buyLog, nextId,
                   t_payload, opens>>

\* the clock of this specification runs one minute further, so that the
\* duration timeout of an order replaced by a reinforcement is inside it
SlotInstants ==
    {t \in 0..(3 * Minute + Jitter) : t % Minute <= Jitter \/ t % Minute >= Minute - Grace}

SlotAdvance ==
    /\ \E t \in SlotInstants :
          /\ t > now
          /\ \A u \in SlotInstants : u > now => t <= u
          /\ now' = t
    /\ UNCHANGED <<watcherVars, tickVars, pollVars, pushVars>>

\* the steps of the tick loop
SlotTick ==
    \/ TickNoScan \/ TickScanNone \/ TickScanBest \/ EnterOpen
    \/ (\E o \in BuyOutcomes : Buy(o))
    \/ OpenFailEnter \/ OpenFailReinforce \/ OpenBuild
    \/ RegAccept \/ RegInsert \/ RegSet
    \/ ResolveIdle \/ ResolveWait \/ ResolveReinforce \/ ResolveTimeout

NextSlot ==
    \/ SlotAdvance
    \/ TickNoScan \/ TickScanNone \/ TickScanBest \/ EnterOpen
    \/ \E o \in BuyOutcomes : Buy(o)
    \/ OpenFailEnter \/ OpenFailReinforce \/ OpenBuild
    \/ RegAccept \/ RegInsert \/ RegSet
    \/ ResolveIdle \/ ResolveWait \/ ResolveReinforce \/ ResolveTimeout
    \/ \E m \in WsIds : WsReceive(m)
    \/ WsDeliver

\* time passes, and the tick loop keeps running
SpecSlot == Init /\ [][NextSlot]_vars /\ WF_vars(SlotAdvance) /\ WF_vars(SlotTick)

\* C26: push closure releases the slot. When the message handler of the
\* orchestrator is given an option-closed message whose identifier is the
\* broker reference of the active order, the active slot is empty after it;
\* for a message with another identifier the slot is left as it was.
C26_PushClosureReleasesSlot ==
    [][ (w_pc = "ws_msg" /\ w_pc' = "idle" /\ HasActiveOrder)
        => IF w_ev.id = active_order[1].order_id
           THEN active_order' = <<>>
           ELSE active_order' = active_order ]_vars

\* the closed list holds, for the reference, a record with a recognized label
RecognizedIn(entries, option_id) ==
    /\ ClosedIndexFrom(entries, option_id, 1) # 0
    /\ NormalizeOutcomeLabel(
          ClosedRawOutcome(entries[ClosedIndexFrom(entries, option_id, 1)])) # NoLabel

\* the poller leaves a pass that has fetched a closed list
PassOver == p_pc \in {"iter", "extract"} /\ p_pc' = "loop" /\ p_cache.fetched

\* C27: resolution by the first pass that can resolve. When a pass that
\* fetched the closed list is over, every entry of its snapshot that was past
\* its expiry, had a known broker reference, and for whose reference the
\* list held a record with a recognized label, is out of the registry.
C27_FirstPassResolves ==
    [][ PassOver =>
          \A i \in 1..Len(p_snapshot) :
              (/\ ~NotDue(p_snapshot[i], p_now)
               /\ p_snapshot[i].option_id # None
               /\ RecognizedIn(p_cache.list, p_snapshot[i].option_id))
              => IndexOf(pending', p_snapshot[i].tid) = 0 ]_vars

\* the instant from which the duration timeout releases the active order
SlotDeadline == active_order[1].open_time + DurationCfg

InWindow ==
    {i \in 1..Len(pending) :
        Abs(pending[i].open_ts - PyRoundSec(w_ev.close_time)) <= MatchWindow}

\* C29: one entry per push event. A closure event removes at most one entry
\* of the registry and writes at most one record: the entry is the earliest
\* registered one inside the window, and every other entry, inside the
\* window or not, is left as it was and in its place.
C29_OneEntryPerEvent ==
    [][ (w_pc = "locked" /\ w_pc' = "idle")
        => IF InWindow = {}
           THEN pending' = pending /\ sink' = sink
           ELSE LET first == CHOOSE i \in InWindow : \A j \in InWindow : i <= j
                IN  /\ Len(pending') = Len(pending) - 1
                    /\ \A j \in 1..Len(pending) :
                          /\ j < first => pending'[j] = pending[j]
                          /\ j > first => pending'[j - 1] = pending[j]
                    /\ Len(sink') = Len(sink) + 1
                    /\ sink'[Len(sink')].trade_id = pending[first].tid ]_vars

\* the push resolver holds an event with two entries inside its window
C29_Witness ==
    /\ w_pc = "locked" /\ w_hit = 1
    /\ Cardinality(InWindow) >= 2

(***************************************************************************)
(* The registry lock: a caller thread registering orders, the push         *)
(* callback and the poller loop run concurrently.                          *)
(***************************************************************************)
\* closure events of the push channel; one carries a profit that is no number
LockEvents ==
    [close_time : {Minute}, result : {"win"}, profit_amount : {80, Token}]

\* the steps that take the lock for themselves
LockTakers == RegInsert \/ PassEmpty \/ PassSnapshot \/ PassRemove

\* the steps of the push callback once it holds the lock
LockHolder == PushResolve \/ PushRaises \/ PushMiss

\* two orders opened a minute ago are pending and past their expiry
InitLock ==
    /\ now = 2 * Minute
    /\ pending = <<MakeBucket(MakeOrder(1, BaseStake, 80, Minute), Minute),
                   MakeBucket(MakeOrder(2, BaseStake, 80, Minute + 2 * Grace), Minute + 2 * Grace)>>
    /\ InitRest

NextLock ==
    \/ WakeRegisterCall \/ RegAccept \/ RegInsert \/ WakeRegisterSet
    \/ \E ev \in LockEvents : PushLock(ev)
    \/ PushResolve \/ PushRaises \/ PushMiss
    \/ PollerLoop \/ PollerWake \/ PollerTimeout \/ PollerClear
    \/ PassEmpty \/ PassSnapshot \/ PassEnd \/ PassSkipNotDue \/ PassDue
    \/ \E l \in StopLists : PollFetch(l)
    \/ PassWait \/ PassMatch \/ PassLog \/ PassRemove

\* the holder of the lock runs on; a thread that is able to take the lock
\* again and again does take it
SpecLock ==
    /\ InitLock /\ [][NextLock]_vars
    /\ WF_vars(LockHolder)
    /\ SF_vars(RegInsert) /\ SF_vars(PassEmpty \/ PassSnapshot) /\ SF_vars(PassRemove)

====
